---- MODULE Spec2Model ----
(***************************************************************************)
(* A model of the SmartApp SDK: the signature verifiers                    *)
(* (SmartApp._isAuthorized in lib/api-app.js and the Signature class), the *)
(* webhook entry points and the event dispatcher SmartApp._handleCallback. *)
(*                                                                         *)
(* JavaScript runs each function to its next await without interruption,   *)
(* so an action is one such run: from a call (or from the resumption of an *)
(* await) to the next await or to the function's end.                      *)
(*                                                                         *)
(* Strings whose characters the code inspects (split, startsWith, slice,   *)
(* template concatenation) are sequences of characters or tokens.          *)
(***************************************************************************)
EXTENDS Integers, Sequences, FiniteSets, TLC

\* Bounds of the model.
MaxCalls == 3
MaxInjections == 1
MaxEvents == 2

VARIABLES
    object,            \* which verifier the calls go to: "SmartApp" or "Signature"
    certKeyId,         \* SmartApp._certKeyId
    certKey,           \* SmartApp._certKey
    padlockSignature,  \* Signature.padlockSignature
    publicKeyId,       \* Signature.publicKeyId
    publicKey,         \* Signature.publicKey
    calls,             \* the calls of isAuthorized: position, request, outcome
    fetchCount,        \* GETs the key server has received, per key id
    keyInjections,     \* calls of Signature.setPublicKey made so far
    subscribedEventHandlers,  \* SmartApp._subscribedEventHandlers
    scheduledEventHandlers,   \* SmartApp._scheduledEventHandlers
    deviceCommandHandler,     \* SmartApp._deviceCommandHandler
    defaultDeviceCommandHandler, \* SmartApp._defaultDeviceCommandHandler
    deviceCommands,           \* SmartApp._deviceCommands
    uninstalledHandler,       \* SmartApp._uninstalledHandler
    contextStore,      \* SmartApp._contextStore: "undefined" or the store
    entry,             \* the entry point the request came in by
    body,              \* the envelope of the request
    pc,                \* where _handleCallback is
    context,           \* the ApiContext of the dispatch
    invoked,           \* the handler invocations made, in order
    emitted,           \* what has been sent to the transport or captured
    storeGets,         \* calls of contextStore.get made so far
    mutexes,           \* Mutex objects created so far
    contexts,          \* the ApiContexts made by withContext calls
    apiCalls,          \* the calls of ApiContext.getApi
    map,               \* IsaState[map], per IsaState instance
    stored,            \* the state the context store holds for the installation
    stateCalls         \* the calls of IsaState.get, update and save

authVars == <<object, certKeyId, certKey, padlockSignature, publicKeyId,
              publicKey, calls, fetchCount, keyInjections>>

registryVars == <<subscribedEventHandlers, scheduledEventHandlers,
                  deviceCommandHandler, defaultDeviceCommandHandler,
                  deviceCommands, uninstalledHandler, contextStore>>

dispatchVars == <<entry, body, pc, context, invoked, emitted, storeGets, mutexes>>

contextVars == <<contexts, apiCalls>>

stateVars == <<map, stored, stateCalls>>

clientVars == <<contextVars, stateVars>>

vars == <<authVars, registryVars, dispatchVars, clientVars>>

----------------------------------------------------------------------------
\* Values

\* A JavaScript value the verifiers handle: its type and its text.
\*   t = "undefined": the undefined value
\*   t = "string":    a string, s its characters (tokens)
\*   t = "object":    an HTTP response object whose data is the string s
\*   t = "key":       an sshpk Key object for the key named s[1]
JsUndefined == [t |-> "undefined", s |-> <<>>]
JsString(s) == [t |-> "string", s |-> s]
JsResponse(data) == [t |-> "object", s |-> data]
JsKey(k) == [t |-> "key", s |-> <<k>>]
\* What a call that threw leaves in place of its value.
JsThrew == [t |-> "threw", s |-> <<>>]
\* The promise a call of an async function returns.
JsPromise == [t |-> "promise", s |-> <<>>]

\* The condition of an if: everything is truthy but false, undefined (and
\* null, 0, NaN and the empty string, which do not occur here).
Truthy(v) == v.t \notin {"false", "undefined"}

KeyIds == {"k1", "k2"}
Keys == {"K1", "K2"}
NoKeyId == "undefined"

\* The key the key server publishes under a key id.
Published(keyId) == IF keyId = "k1" THEN "K1" ELSE "K2"

\* The PEM text of the certificate of a key, and the PEM text of a public key.
PemCertificate(k) == <<"CERT", k>>
PemPublicKey(k) == <<"PUBKEY", k>>
Garbage == <<"garbage">>

\* The requests: a request without a parsable signature header, or one that
\* names a key id and carries a signature made with (the private half of) a key.
Requests ==
    {[malformed |-> TRUE, keyId |-> NoKeyId, signedBy |-> "none"]}
    \cup {[malformed |-> FALSE, keyId |-> k, signedBy |-> s] : k \in KeyIds, s \in Keys}

NoRequest == [malformed |-> TRUE, keyId |-> NoKeyId, signedBy |-> "none"]

\* What the key server answers to one GET: the certificate it publishes, a
\* body that is no certificate, or a failure of the request.
FetchOutcomes == {"ok", "garbage", "error"}

FetchBody(keyId, outcome) ==
    IF outcome = "ok" THEN PemCertificate(Published(keyId)) ELSE Garbage

\* rp.get resolves with the body of the response.
RpGet(keyId, outcome) == JsString(FetchBody(keyId, outcome))

\* axios.get resolves with the response object, whose data field is the body.
AxiosGet(keyId, outcome) == JsResponse(FetchBody(keyId, outcome))

\* sshpk.parseCertificate(data, 'pem'): the certificate's subject key; it
\* throws on anything that is not the text of a certificate.
ParseCertificate(data) ==
    IF data.t = "string" /\ data.s \in {PemCertificate(k) : k \in Keys}
    THEN JsKey(data.s[2])
    ELSE JsThrew

\* The key httpSignature.verifySignature checks against: a Key object as it
\* is, a string parsed as the text of a public key; anything else throws.
KeyMaterial(pubkey) ==
    IF pubkey.t = "key" THEN pubkey.s[1]
    ELSE IF pubkey.t = "string" /\ pubkey.s \in {PemPublicKey(k) : k \in Keys}
         THEN pubkey.s[2]
         ELSE "threw"

\* httpSignature.verifySignature(parsed, pubkey): "true", "false" or "threw".
VerifySignature(req, pubkey) ==
    LET k == KeyMaterial(pubkey) IN
    IF k = "threw" THEN "threw"
    ELSE IF req.signedBy = k THEN "true" ELSE "false"

\* The files setPublicKey can be pointed to, and fs.readFileSync on them.
FileExists(path) == path = <<"f1">>
ReadFileSync(path) == PemPublicKey("K2")

StartsWithAt(s) == Len(s) > 0 /\ s[1] = "@"

\* The arguments of setPublicKey: key text, the path of a key file, the path
\* of a file that does not exist.
CertKeyArgs == {PemPublicKey("K1"), <<"@", "f1">>, <<"@", "f2">>}

----------------------------------------------------------------------------
\* The calls of isAuthorized

CallIds == 1..MaxCalls

IdleCall == [pc |-> "idle", req |-> NoRequest, fetch |-> "none",
             verified |-> "none", result |-> FALSE]

\* try { ... } catch (error) { log; return false }: what the function's body
\* ended with ("true", "false" or "threw") to what the call ends with.
SmartAppCatchRethrows(outcome) == outcome
SmartAppCatch(outcome) == IF outcome = "threw" THEN "false" ELSE outcome

SignatureCatch(outcome) == IF outcome = "threw" THEN "false" ELSE outcome

\* The call after its function ended: returned a boolean, or threw.
Ended(call, verified, caught) ==
    [call EXCEPT !.pc = IF caught = "threw" THEN "threw" ELSE "returned",
                 !.verified = verified,
                 !.result = (caught = "true")]

\* if (!verifyResult) { return false } ... return true
ReturnOf(verifyResult) ==
    IF verifyResult = "threw" THEN "threw"
    ELSE IF verifyResult = "false" THEN "false" ELSE "true"

\* SmartApp._isAuthorized from the certificate parse on: parse the cached
\* certificate text, verify against its subject key.
SmartAppVerify(call, cert) ==
    LET par == ParseCertificate(cert) IN
    IF par.t = "threw" THEN Ended(call, "none", SmartAppCatch("threw"))
    ELSE LET v == VerifySignature(call.req, par) IN
         Ended(call, v, SmartAppCatch(ReturnOf(v)))

\* this._certKeyId !== parsed.keyId
SmartAppNeedsFetch(cachedId, keyId) == cachedId # keyId

\* SmartApp._isAuthorized(req), to its await or its end.
SmartAppIsAuthorized(c, req) ==
    /\ object = "SmartApp"
    /\ calls[c].pc = "idle"
    /\ IF c = 1 THEN TRUE ELSE calls[c - 1].pc # "idle"
    /\ LET call == [calls[c] EXCEPT !.req = req] IN
       IF req.malformed
       THEN /\ calls' = [calls EXCEPT ![c] = Ended(call, "none", SmartAppCatch("threw"))]
            /\ UNCHANGED <<certKeyId, certKey, fetchCount>>
       ELSE IF SmartAppNeedsFetch(certKeyId, req.keyId)
       THEN /\ certKeyId' = req.keyId
            /\ fetchCount' = [fetchCount EXCEPT ![req.keyId] = @ + 1]
            /\ calls' = [calls EXCEPT ![c] = [call EXCEPT !.pc = "awaitCert",
                                                          !.fetch = "pending"]]
            /\ UNCHANGED certKey
       ELSE /\ calls' = [calls EXCEPT ![c] = SmartAppVerify(call, certKey)]
            /\ UNCHANGED <<certKeyId, certKey, fetchCount>>
    /\ UNCHANGED <<object, padlockSignature, publicKeyId, publicKey, keyInjections>>

\* The await of _getCertificate ends: this._certKey = <body>, or the catch.
SmartAppCertReturn(c, outcome) ==
    /\ object = "SmartApp"
    /\ calls[c].pc = "awaitCert"
    /\ LET call == [calls[c] EXCEPT !.fetch = outcome] IN
       IF outcome = "error"
       THEN /\ calls' = [calls EXCEPT ![c] = Ended(call, "none", SmartAppCatch("threw"))]
            /\ UNCHANGED certKey
       ELSE /\ certKey' = RpGet(call.req.keyId, outcome)
            /\ calls' = [calls EXCEPT ![c] = SmartAppVerify(call, certKey')]
    /\ UNCHANGED <<object, certKeyId, fetchCount, padlockSignature, publicKeyId,
                   publicKey, keyInjections>>

\* this.padlockSignature && this.publicKeyId !== parsed.keyId
SignatureNeedsFetchUnlocked(padlock, cachedId, keyId) == cachedId # keyId
SignatureNeedsFetch(padlock, cachedId, keyId) == padlock /\ cachedId # keyId

\* Signature.isAuthorized from verifySignature on.
SignatureVerify(call, pubkey) ==
    LET v == VerifySignature(call.req, pubkey) IN
    Ended(call, v, SignatureCatch(ReturnOf(v)))

\* Signature.isAuthorized(request), to its await or its end.
SignatureIsAuthorized(c, req) ==
    /\ object = "Signature"
    /\ calls[c].pc = "idle"
    /\ IF c = 1 THEN TRUE ELSE calls[c - 1].pc # "idle"
    /\ LET call == [calls[c] EXCEPT !.req = req] IN
       IF req.malformed
       THEN /\ calls' = [calls EXCEPT ![c] = Ended(call, "none", SignatureCatch("threw"))]
            /\ UNCHANGED fetchCount
       ELSE IF SignatureNeedsFetch(padlockSignature, publicKeyId, req.keyId)
       THEN /\ fetchCount' = [fetchCount EXCEPT ![req.keyId] = @ + 1]
            /\ calls' = [calls EXCEPT ![c] = [call EXCEPT !.pc = "awaitCert",
                                                          !.fetch = "pending"]]
       ELSE /\ calls' = [calls EXCEPT ![c] = SignatureVerify(call, publicKey)]
            /\ UNCHANGED fetchCount
    /\ UNCHANGED <<object, certKeyId, certKey, padlockSignature, publicKeyId,
                   publicKey, keyInjections>>

\* The await of axios.get ends: parse what it resolved with, cache the key id
\* and the subject key, verify; or the catch.
SignatureCertReturn(c, outcome) ==
    /\ object = "Signature"
    /\ calls[c].pc = "awaitCert"
    /\ LET call == [calls[c] EXCEPT !.fetch = outcome]
           pem == ParseCertificate(AxiosGet(call.req.keyId, outcome)) IN
       IF outcome = "error" \/ pem.t = "threw"
       THEN /\ calls' = [calls EXCEPT ![c] = Ended(call, "none", SignatureCatch("threw"))]
            /\ UNCHANGED <<publicKeyId, publicKey>>
       ELSE /\ publicKeyId' = call.req.keyId
            /\ publicKey' = pem
            /\ calls' = [calls EXCEPT ![c] = SignatureVerify(call, publicKey')]
    /\ UNCHANGED <<object, certKeyId, certKey, padlockSignature, fetchCount,
                   keyInjections>>

\* Signature.setPublicKey(certKey): the flag first, then the key text or the
\* content of the file; readFileSync throws when there is no such file.
SetPublicKey(arg) ==
    /\ object = "Signature"
    /\ keyInjections < MaxInjections
    /\ keyInjections' = keyInjections + 1
    /\ padlockSignature' = FALSE
    /\ publicKey' = IF StartsWithAt(arg)
                    THEN IF FileExists(Tail(arg))
                         THEN JsString(ReadFileSync(Tail(arg)))
                         ELSE publicKey
                    ELSE JsString(arg)
    /\ UNCHANGED <<object, certKeyId, certKey, publicKeyId, calls, fetchCount>>

----------------------------------------------------------------------------
\* Envelopes and events

\* The part of s before the first occurrence of the character ch, all of s
\* when there is none: s.split(ch)[0].
FirstIndexOf(s, ch) ==
    IF \E i \in 1..Len(s) : s[i] = ch
    THEN CHOOSE i \in 1..Len(s) : s[i] = ch /\ \A j \in 1..(i - 1) : s[j] # ch
    ELSE 0

SplitFirst(s, ch) ==
    IF FirstIndexOf(s, ch) = 0 THEN s ELSE SubSeq(s, 1, FirstIndexOf(s, ch) - 1)

DeviceEvent(subscriptionName) ==
    [eventType |-> "DEVICE_EVENT",
     deviceEvent |-> [subscriptionName |-> subscriptionName]]

TimerEvent(name) ==
    [eventType |-> "TIMER_EVENT", timerEvent |-> [name |-> name]]

LifecycleEvent(lifecycle) ==
    [eventType |-> "INSTALLED_APP_LIFECYCLE_EVENT",
     installedAppLifecycleEvent |-> [lifecycle |-> lifecycle]]

Command(componentId, capability, command) ==
    [componentId |-> componentId, capability |-> capability, command |-> command]

DeviceCommandsEvent(commands) ==
    [eventType |-> "DEVICE_COMMANDS_EVENT",
     deviceCommandsEvent |-> [deviceId |-> "d1", commands |-> commands]]

ModeEvent == [eventType |-> "MODE_EVENT", modeEvent |-> [modeId |-> "m1"]]

SecurityArmStateEvent ==
    [eventType |-> "SECURITY_ARM_STATE_EVENT",
     securityArmStateEvent |-> [armState |-> "ARMED_AWAY"]]

OtherEvent == [eventType |-> "WEATHER_EVENT"]

InstalledAppId == "ia1"

EventEnvelope(events) ==
    [messageType |-> "EVENT",
     eventData |-> [installedApp |-> [installedAppId |-> InstalledAppId,
                                      locationId |-> "loc1"],
                    events |-> events]]

ConfirmationEnvelope == [messageType |-> "CONFIRMATION"]

NoBody == [messageType |-> "undefined"]

\* The sequences over S of length at most n.
SeqsUpTo(S, n) == UNION {[1..k -> S] : k \in 0..n}

ExecuteEnvelope == [messageType |-> "EXECUTE"]

\* An envelope without a messageType.
UntypedEnvelope == [messageType |-> "undefined"]

Envelopes(events) ==
    {EventEnvelope(es) : es \in SeqsUpTo(events, MaxEvents)}
    \cup {ConfirmationEnvelope, ExecuteEnvelope, UntypedEnvelope}

\* The names the two fixed-name handlers are looked up under.
ModeChangeHandlerName == <<"modeChangeHandler">>
SecurityArmStateHandlerName == <<"securityArmStateHandler">>

----------------------------------------------------------------------------
\* The handler registry

\* A callback is named by a string. NoCallback is undefined (or null): no
\* function. "noop" is () => {}, "warnNoCommandHandler" the constructor's
\* default device command handler; both return undefined. Every other
\* callback is a developer's function, which returns a promise.
NoCallback == "undefined"
BuiltinCallbacks == {"noop", "warnNoCommandHandler"}

\* table[key] of a JavaScript object used as a table.
Lookup(table, key) == IF key \in DOMAIN table THEN table[key] ELSE NoCallback

EmptyTable == <<>>

\* subscribedEventHandler(name, callback)
SubscribedEventHandler(name, callback) ==
    /\ pc = "idle"
    /\ name \notin DOMAIN subscribedEventHandlers
    /\ subscribedEventHandlers' = (name :> callback) @@ subscribedEventHandlers
    /\ UNCHANGED <<scheduledEventHandlers, deviceCommandHandler,
                   defaultDeviceCommandHandler, deviceCommands,
                   uninstalledHandler, contextStore>>
    /\ UNCHANGED <<clientVars, authVars, dispatchVars>>

\* scheduledEventHandler(name, callback)
ScheduledEventHandler(name, callback) ==
    /\ pc = "idle"
    /\ name \notin DOMAIN scheduledEventHandlers
    /\ scheduledEventHandlers' = (name :> callback) @@ scheduledEventHandlers
    /\ UNCHANGED <<subscribedEventHandlers, deviceCommandHandler,
                   defaultDeviceCommandHandler, deviceCommands,
                   uninstalledHandler, contextStore>>
    /\ UNCHANGED <<clientVars, authVars, dispatchVars>>

\* deviceCommandHandler(callback)
DeviceCommandHandler(callback) ==
    /\ pc = "idle"
    /\ deviceCommandHandler # callback
    /\ deviceCommandHandler' = callback
    /\ UNCHANGED <<subscribedEventHandlers, scheduledEventHandlers,
                   defaultDeviceCommandHandler, deviceCommands,
                   uninstalledHandler, contextStore>>
    /\ UNCHANGED <<clientVars, authVars, dispatchVars>>

\* defaultDeviceCommandHandler(callback)
DefaultDeviceCommandHandler(callback) ==
    /\ pc = "idle"
    /\ defaultDeviceCommandHandler # callback
    /\ defaultDeviceCommandHandler' = callback
    /\ UNCHANGED <<subscribedEventHandlers, scheduledEventHandlers,
                   deviceCommandHandler, deviceCommands,
                   uninstalledHandler, contextStore>>
    /\ UNCHANGED <<clientVars, authVars, dispatchVars>>

\* deviceCommand(command, callback)
DeviceCommand(command, callback) ==
    /\ pc = "idle"
    /\ command \notin DOMAIN deviceCommands
    /\ deviceCommands' = (command :> callback) @@ deviceCommands
    /\ UNCHANGED <<subscribedEventHandlers, scheduledEventHandlers,
                   deviceCommandHandler, defaultDeviceCommandHandler,
                   uninstalledHandler, contextStore>>
    /\ UNCHANGED <<clientVars, authVars, dispatchVars>>

\* uninstalled(callback)
Uninstalled(callback) ==
    /\ pc = "idle"
    /\ uninstalledHandler # callback
    /\ uninstalledHandler' = callback
    /\ UNCHANGED <<subscribedEventHandlers, scheduledEventHandlers,
                   deviceCommandHandler, defaultDeviceCommandHandler,
                   deviceCommands, contextStore>>
    /\ UNCHANGED <<clientVars, authVars, dispatchVars>>

\* contextStore(value)
ContextStore(value) ==
    /\ pc = "idle"
    /\ contextStore # value
    /\ contextStore' = value
    /\ UNCHANGED <<subscribedEventHandlers, scheduledEventHandlers,
                   deviceCommandHandler, defaultDeviceCommandHandler,
                   deviceCommands, uninstalledHandler>>
    /\ UNCHANGED <<clientVars, authVars, dispatchVars>>

----------------------------------------------------------------------------
\* The Installation Context

\* What contextStore.get(installedAppId) resolves with: the persisted record.
StoreData(installedAppId) ==
    [messageType |-> "undefined", installedAppId |-> installedAppId,
     locationId |-> "loc1", authToken |-> "at1", refreshToken |-> "rt1"]

\* A Mutex object is named by a positive number; 0 is undefined.
NoMutex == 0

NoApi == [made |-> FALSE, installedAppId |-> "undefined", locationId |-> "undefined",
          authToken |-> "undefined", refreshToken |-> "undefined", apiMutex |-> NoMutex]

NoContext == [installedAppId |-> "undefined", locationId |-> "undefined",
              authToken |-> "undefined", refreshToken |-> "undefined",
              apiMutex |-> NoMutex, api |-> NoApi]

\* new ApiContext(app, body, apiMutex): "this.apiMutex;" stores nothing.
ApiContext(data, apiMutex) ==
    IF data.messageType = "EVENT"
    THEN [NoContext EXCEPT !.installedAppId = data.eventData.installedApp.installedAppId,
                           !.locationId = data.eventData.installedApp.locationId]
    ELSE IF data.messageType = "EXECUTE"
    THEN [NoContext EXCEPT !.installedAppId = data.executeData.installedApp.installedAppId,
                           !.locationId = data.executeData.installedApp.locationId]
    ELSE [installedAppId |-> data.installedAppId,
          locationId |-> data.locationId,
          authToken |-> data.authToken,
          refreshToken |-> data.refreshToken,
          apiMutex |-> NoMutex,
          api |-> [made |-> TRUE, installedAppId |-> data.installedAppId,
                   locationId |-> data.locationId, authToken |-> data.authToken,
                   refreshToken |-> data.refreshToken, apiMutex |-> apiMutex]]

\* a || b
Or(a, b) == IF a \notin {"undefined", ""} THEN a ELSE b

InstalledAppIds == {"ia1", "ia2"}
LocationIds == {"loc1", "loc2"}

\* The envelope of an EVENT for an installation, as withContext can be given.
InstalledAppEnvelope(installedAppId) ==
    [EventEnvelope(<<>>) EXCEPT !.eventData.installedApp.installedAppId = installedAppId]

\* The objects withContext is called with: an envelope, or stored context data.
ContextObjects ==
    {InstalledAppEnvelope(ia) : ia \in InstalledAppIds}
    \cup {StoreData(ia) : ia \in InstalledAppIds}

MaxContexts == 2
MaxApiCalls == 2

ContextIds == 1..MaxContexts
ApiCallIds == 1..MaxApiCalls

\* One withContext call and the ApiContext it makes: where the call is, the
\* installedAppId it was given, the Mutex it made, the ApiContext, the
\* SmartThingsApi object in this.api (0 for none; the n-th one made for this
\* context otherwise), the number of SmartThingsApi objects made for it, the
\* number of store gets getApi made for it, and the id last given to
\* setLocationId.
NoContextCall ==
    [pc |-> "none", arg |-> "undefined", mutex |-> NoMutex, ctx |-> NoContext,
     client |-> 0, clients |-> 0, fetches |-> 0, located |-> "undefined"]

NoApiCall == [pc |-> "idle", ctx |-> 0, got |-> 0]

\* return new ApiContext(this, data, new Mutex())
Made(call, data, mutex) ==
    LET ctx == ApiContext(data, mutex) IN
    [call EXCEPT !.pc = "alive", !.mutex = mutex, !.ctx = ctx,
                 !.client = IF ctx.api.made THEN 1 ELSE 0,
                 !.clients = IF ctx.api.made THEN 1 ELSE 0]

\* withContext(installedAppIdOrObject) given an object.
WithContextObject(c, obj) ==
    /\ contexts[c].pc = "none"
    /\ IF c = 1 THEN TRUE ELSE contexts[c - 1].pc # "none"
    /\ contexts' = [contexts EXCEPT ![c] = Made(contexts[c], obj, mutexes + 1)]
    /\ mutexes' = mutexes + 1
    /\ UNCHANGED <<entry, body, pc, context, invoked, emitted, storeGets>>
    /\ UNCHANGED <<stateVars, apiCalls, authVars, registryVars>>

\* withContext(installedAppIdOrObject) given an installedAppId, to its await
\* of the store; with no store, the call of get on undefined throws.
WithContext(c, installedAppId) ==
    /\ contexts[c].pc = "none"
    /\ IF c = 1 THEN TRUE ELSE contexts[c - 1].pc # "none"
    /\ IF contextStore = "undefined"
       THEN /\ contexts' = [contexts EXCEPT ![c].pc = "threw", ![c].arg = installedAppId]
            /\ UNCHANGED storeGets
       ELSE /\ contexts' = [contexts EXCEPT ![c].pc = "awaitStore",
                                            ![c].arg = installedAppId]
            /\ storeGets' = storeGets + 1
    /\ UNCHANGED <<entry, body, pc, context, invoked, emitted, mutexes>>
    /\ UNCHANGED <<stateVars, apiCalls, authVars, registryVars>>

\* The await of contextStore.get in withContext ends.
WithContextStoreReturn(c, outcome) ==
    /\ contexts[c].pc = "awaitStore"
    /\ IF outcome = "error"
       THEN /\ contexts' = [contexts EXCEPT ![c].pc = "threw"]
            /\ UNCHANGED mutexes
       ELSE IF outcome = "missing"
       THEN /\ contexts' = [contexts EXCEPT ![c].pc = "threw"]
            /\ mutexes' = mutexes + 1
       ELSE /\ contexts' = [contexts EXCEPT ![c] =
                               Made(contexts[c], StoreData(contexts[c].arg), mutexes + 1)]
            /\ mutexes' = mutexes + 1
    /\ UNCHANGED <<entry, body, pc, context, invoked, emitted, storeGets>>
    /\ UNCHANGED <<stateVars, apiCalls, authVars, registryVars>>

\* setLocationId(id)
SetLocationId(c, id) ==
    /\ contexts[c].pc = "alive"
    /\ contexts' = [contexts EXCEPT
          ![c].located = id,
          ![c].ctx = IF contexts[c].ctx.api.made
                     THEN [contexts[c].ctx EXCEPT !.locationId = id, !.api.locationId = id]
                     ELSE [contexts[c].ctx EXCEPT !.locationId = id]]
    /\ UNCHANGED <<stateVars, apiCalls, authVars, registryVars, dispatchVars>>

\* getApi(), to its await of the store or its end.
GetApi(k, c) ==
    /\ apiCalls[k].pc = "idle"
    /\ IF k = 1 THEN TRUE ELSE apiCalls[k - 1].pc # "idle"
    /\ contexts[c].pc = "alive"
    /\ IF contexts[c].ctx.api.made
       THEN /\ apiCalls' = [apiCalls EXCEPT ![k] = [pc |-> "returned", ctx |-> c,
                                                    got |-> contexts[c].client]]
            /\ UNCHANGED <<contexts, storeGets>>
       ELSE IF contextStore = "undefined"
       THEN /\ apiCalls' = [apiCalls EXCEPT ![k] = [pc |-> "threw", ctx |-> c, got |-> 0]]
            /\ UNCHANGED <<contexts, storeGets>>
       ELSE /\ apiCalls' = [apiCalls EXCEPT ![k] = [pc |-> "awaitStore", ctx |-> c,
                                                    got |-> 0]]
            /\ contexts' = [contexts EXCEPT ![c].fetches = @ + 1]
            /\ storeGets' = storeGets + 1
    /\ UNCHANGED <<entry, body, pc, context, invoked, emitted, mutexes>>
    /\ UNCHANGED <<stateVars, authVars, registryVars>>

\* The await of contextStore.get in getApi ends: the tokens and the location
\* id are taken from the data, the SmartThingsApi is made and returned.
GetApiStoreReturn(k, outcome) ==
    /\ apiCalls[k].pc = "awaitStore"
    /\ LET c == apiCalls[k].ctx
           data == StoreData(contexts[c].ctx.installedAppId)
           this == [contexts[c].ctx EXCEPT !.authToken = data.authToken,
                                           !.refreshToken = data.refreshToken,
                                           !.locationId = data.locationId]
           api == [made |-> TRUE, installedAppId |-> this.installedAppId,
                   locationId |-> Or(this.locationId, data.locationId),
                   authToken |-> data.authToken, refreshToken |-> data.refreshToken,
                   apiMutex |-> this.apiMutex]
       IN IF outcome # "ok"
          THEN /\ apiCalls' = [apiCalls EXCEPT ![k].pc = "threw"]
               /\ UNCHANGED contexts
          ELSE /\ contexts' = [contexts EXCEPT
                     ![c].ctx = [this EXCEPT !.api = api],
                     ![c].client = contexts[c].clients + 1,
                     ![c].clients = @ + 1]
               /\ apiCalls' = [apiCalls EXCEPT ![k].pc = "returned",
                                               ![k].got = contexts[c].clients + 1]
    /\ UNCHANGED <<stateVars, authVars, registryVars, dispatchVars>>

----------------------------------------------------------------------------
\* The scoped state (IsaState)

\* A state mapping is a tree: its kind (null, or an object) and its leaves,
\* a function from paths to numbers. A path is a sequence of keys and a key
\* is a string (a sequence of characters): {a: {b: 1}, c: 2} has the leaves
\* <<"a">>,<<"b">> -> 1 and <<"c">> -> 2.
NullTree == [kind |-> "null", leaves |-> <<>>]
EmptyTree == [kind |-> "object", leaves |-> <<>>]
Tree(leaves) == [kind |-> "object", leaves |-> leaves]

\* What a property read evaluates to: a number, an object, or undefined.
JsNumber(n) == [t |-> "number", n |-> n]
JsObject == [t |-> "object", n |-> 0]
JsNoValue == [t |-> "undefined", n |-> 0]

\* name.split('.')
RECURSIVE Split(_, _)
Split(s, ch) ==
    IF FirstIndexOf(s, ch) = 0 THEN <<s>>
    ELSE <<SubSeq(s, 1, FirstIndexOf(s, ch) - 1)>>
         \o Split(SubSeq(s, FirstIndexOf(s, ch) + 1, Len(s)), ch)

\* path q lies strictly below path p
Below(q, p) == Len(q) > Len(p) /\ SubSeq(q, 1, Len(p)) = p

\* tree[key] for a tree that is an object
Member(tree, key) ==
    IF <<key>> \in DOMAIN tree.leaves THEN JsNumber(tree.leaves[<<key>>])
    ELSE IF \E q \in DOMAIN tree.leaves : Below(q, <<key>>) THEN JsObject
    ELSE JsNoValue

\* if (name) { return this[map][name] } return this[map]; reading a property
\* of null throws.
Read(tree, name) ==
    IF name = <<>> THEN [threw |-> FALSE, value |-> JsObject]
    ELSE IF tree.kind = "null" THEN [threw |-> TRUE, value |-> JsNoValue]
    ELSE [threw |-> FALSE, value |-> Member(tree, name)]

\* The value of this in a function called without a receiver (strict mode).
PlainCallThis == JsUndefined

\* putSegmentedName(name, value) with this bound to self, tree being
\* self[map]: reading this[map] of undefined throws; the loop walks the
\* segments but the last without creating a level, and throws where one is
\* missing; then item[key] = value.
PutSegmentedName(self, tree, name, value) ==
    LET segs == Split(name, <<".">>[1])
        parent == SubSeq(segs, 1, Len(segs) - 1)
        reachable == /\ tree.kind = "object"
                     /\ \/ parent = <<>>
                        \/ \E q \in DOMAIN tree.leaves : Below(q, parent)
        kept == {q \in DOMAIN tree.leaves : q # segs /\ ~Below(q, segs)}
    IN IF self.t = "undefined" \/ ~reachable
       THEN [threw |-> TRUE, map |-> tree]
       ELSE [threw |-> FALSE,
             map |-> Tree([q \in kept \cup {segs} |->
                              IF q = segs THEN value ELSE tree.leaves[q]])]

\* {state: {name: value}}: an object literal's key is the identifier itself.
UpdatePayload(name, value) == Tree(<<<<"name">>>> :> value)

MaxStateCalls == 3

StateIds == {1}
StateCallIds == 1..MaxStateCalls

\* One call of get, update or save: where it is, on which instance, its
\* arguments, what it passed to contextStore.update, whether it called
\* contextStore.get, how many times it called contextStore.update, what it
\* whether the store confirmed that write, what the call returned, and the
\* calls that were suspended when it began.
NoStateCall ==
    [pc |-> "idle", op |-> "none", inst |-> 0, name |-> <<>>, value |-> 0,
     payload |-> NullTree, fetched |-> FALSE, writes |-> 0, acked |-> FALSE,
     result |-> JsNoValue, during |-> {}]

Suspended == {j \in StateCallIds : stateCalls[j].pc \in {"awaitGet", "awaitUpdate"}}

Begun(k, op, inst, name, value) ==
    [NoStateCall EXCEPT !.op = op, !.inst = inst, !.name = name, !.value = value,
                        !.during = Suspended]

CanBegin(k) ==
    /\ stateCalls[k].pc = "idle"
    /\ IF k = 1 THEN TRUE ELSE stateCalls[k - 1].pc # "idle"

\* return of get: this[map][name]
Returned(call, tree) ==
    LET r == Read(tree, call.name) IN
    [call EXCEPT !.pc = IF r.threw THEN "threw" ELSE "returned", !.result = r.value]

\* get(name), to its await of the store or its end.
Get(k, inst, name) ==
    /\ CanBegin(k)
    /\ LET call == Begun(k, "get", inst, name, 0) IN
       IF map[inst].kind = "null"
       THEN stateCalls' = [stateCalls EXCEPT ![k] = [call EXCEPT !.pc = "awaitGet",
                                                                 !.fetched = TRUE]]
       ELSE stateCalls' = [stateCalls EXCEPT ![k] = Returned(call, map[inst])]
    /\ UNCHANGED <<map, stored>>
    /\ UNCHANGED <<contextVars, authVars, registryVars, dispatchVars>>

\* The await of contextStore.get ends: this[map] = ctx.state.
GetStoreReturn(k, outcome) ==
    /\ stateCalls[k].pc = "awaitGet"
    /\ IF outcome # "ok"
       THEN /\ stateCalls' = [stateCalls EXCEPT ![k].pc = "threw"]
            /\ UNCHANGED map
       ELSE /\ map' = [map EXCEPT ![stateCalls[k].inst] = stored]
            /\ stateCalls' = [stateCalls EXCEPT ![k] = Returned(stateCalls[k], stored)]
    /\ UNCHANGED stored
    /\ UNCHANGED <<contextVars, authVars, registryVars, dispatchVars>>

\* update(name, value), to its await of contextStore.update.
Update(k, inst, name, value) ==
    /\ CanBegin(k)
    /\ stateCalls' = [stateCalls EXCEPT ![k] =
          [Begun(k, "update", inst, name, value) EXCEPT
              !.pc = "awaitUpdate", !.writes = 1,
              !.payload = UpdatePayload(name, value)]]
    /\ UNCHANGED <<map, stored>>
    /\ UNCHANGED <<contextVars, authVars, registryVars, dispatchVars>>

\* The await of contextStore.update in update ends: the store has replaced
\* the state it holds; then putSegmentedName(name, value).
UpdateStoreReturn(k, outcome) ==
    /\ stateCalls[k].pc = "awaitUpdate"
    /\ stateCalls[k].op = "update"
    /\ IF outcome # "ok"
       THEN /\ stateCalls' = [stateCalls EXCEPT ![k].pc = "threw"]
            /\ UNCHANGED <<map, stored>>
       ELSE LET call == stateCalls[k]
                put == PutSegmentedName(PlainCallThis, map[call.inst],
                                        call.name, call.value)
            IN /\ stored' = call.payload
               /\ map' = [map EXCEPT ![call.inst] = put.map]
               /\ stateCalls' = [stateCalls EXCEPT
                     ![k].acked = TRUE,
                     ![k].pc = IF put.threw THEN "threw" ELSE "returned"]
    /\ UNCHANGED <<contextVars, authVars, registryVars, dispatchVars>>

\* save(): return this.contextStore.update(this.installedAppId, {state: this[map]})
Save(k, inst) ==
    /\ CanBegin(k)
    /\ stateCalls' = [stateCalls EXCEPT ![k] =
          [Begun(k, "save", inst, <<>>, 0) EXCEPT
              !.pc = "awaitUpdate", !.writes = 1, !.payload = map[inst]]]
    /\ UNCHANGED <<map, stored>>
    /\ UNCHANGED <<contextVars, authVars, registryVars, dispatchVars>>

\* The promise save returned settles.
SaveStoreReturn(k, outcome) ==
    /\ stateCalls[k].pc = "awaitUpdate"
    /\ stateCalls[k].op = "save"
    /\ IF outcome # "ok"
       THEN /\ stateCalls' = [stateCalls EXCEPT ![k].pc = "threw"]
            /\ UNCHANGED stored
       ELSE /\ stored' = stateCalls[k].payload
            /\ stateCalls' = [stateCalls EXCEPT ![k].pc = "returned", ![k].acked = TRUE]
    /\ UNCHANGED map
    /\ UNCHANGED <<contextVars, authVars, registryVars, dispatchVars>>

----------------------------------------------------------------------------
\* The event dispatcher

\* One call of a handler: the event it is for, the callback, its arguments,
\* whether what it returned was pushed onto results, and the state of what it
\* returned: "pending", "fulfilled" or "rejected" for a promise, "value" for
\* anything that is no promise.
Invocation(i, callback, collected, args) ==
    [event |-> i, callback |-> callback, collected |-> collected, args |-> args,
     status |-> IF callback \in BuiltinCallbacks THEN "value" ELSE "pending"]

\* handler(...): calling undefined throws a TypeError.
CallCollectingAll(i, callback, collected, args) ==
    IF callback = NoCallback
    THEN [invocations |-> <<>>, threw |-> TRUE]
    ELSE [invocations |-> <<Invocation(i, callback, TRUE, args)>>, threw |-> FALSE]

CallSkippingMissing(i, callback, collected, args) ==
    IF callback = NoCallback
    THEN [invocations |-> <<>>, threw |-> FALSE]
    ELSE [invocations |-> <<Invocation(i, callback, collected, args)>>, threw |-> FALSE]

Call(i, callback, collected, args) ==
    IF callback = NoCallback
    THEN [invocations |-> <<>>, threw |-> TRUE]
    ELSE [invocations |-> <<Invocation(i, callback, collected, args)>>, threw |-> FALSE]

Aborts == [invocations |-> <<>>, threw |-> TRUE]

Nothing == [invocations |-> <<>>, threw |-> FALSE]

\* event.deviceEvent.subscriptionName.split('_')[0]
HandlerNameWhole(subscriptionName) == subscriptionName
HandlerName(subscriptionName) == SplitFirst(subscriptionName, "_")

\* `${cmd.componentId}/${cmd.capability}/${cmd.command}`
CompKey(cmd) == <<cmd.componentId, "/", cmd.capability, "/", cmd.command>>
\* `${cmd.capability}/${cmd.command}`
CapKey(cmd) == <<cmd.capability, "/", cmd.command>>

\* let handler = this._deviceCommands[compKey]; if (!handler) { ...[capKey] }
CommandHandlerCompOnly(cmd) == Lookup(deviceCommands, CompKey(cmd))

CommandHandler(cmd) ==
    IF Lookup(deviceCommands, CompKey(cmd)) # NoCallback
    THEN Lookup(deviceCommands, CompKey(cmd))
    ELSE Lookup(deviceCommands, CapKey(cmd))

\* for (const cmd of deviceCommandsEvent.commands) { ... }, from command k.
RECURSIVE DispatchCommands(_, _, _, _, _)
DispatchCommands(i, ctx, dce, k, acc) ==
    IF k > Len(dce.commands) THEN [invocations |-> acc, threw |-> FALSE]
    ELSE LET cmd == dce.commands[k]
             r == IF CommandHandler(cmd) # NoCallback
                  THEN Call(i, CommandHandler(cmd), TRUE,
                            <<ctx, [deviceId |-> dce.deviceId], cmd, dce>>)
                  ELSE Call(i, defaultDeviceCommandHandler, FALSE,
                            <<ctx, [deviceId |-> dce.deviceId], cmd>>)
         IN IF r.threw THEN [invocations |-> acc \o r.invocations, threw |-> TRUE]
            ELSE DispatchCommands(i, ctx, dce, k + 1, acc \o r.invocations)

\* switch (event.eventType) { ... } for the event at index i.
DispatchEvent(i, event, ctx) ==
    CASE event.eventType = "INSTALLED_APP_LIFECYCLE_EVENT" ->
            IF event.installedAppLifecycleEvent.lifecycle = "DELETE"
            THEN Call(i, uninstalledHandler, FALSE, <<ctx, event>>)
            ELSE Nothing
      [] event.eventType = "DEVICE_EVENT" ->
            Call(i, Lookup(subscribedEventHandlers,
                           HandlerName(event.deviceEvent.subscriptionName)),
                 TRUE, <<ctx, event.deviceEvent>>)
      [] event.eventType = "TIMER_EVENT" ->
            Call(i, Lookup(scheduledEventHandlers, event.timerEvent.name),
                 TRUE, <<ctx, event.timerEvent>>)
      [] event.eventType = "DEVICE_COMMANDS_EVENT" ->
            IF deviceCommandHandler # NoCallback
            THEN Call(i, deviceCommandHandler, TRUE, <<ctx, event.deviceCommandsEvent>>)
            ELSE DispatchCommands(i, ctx, event.deviceCommandsEvent, 1, <<>>)
      [] event.eventType = "MODE_EVENT" ->
            Call(i, Lookup(subscribedEventHandlers, ModeChangeHandlerName),
                 TRUE, <<ctx, event.modeEvent>>)
      [] event.eventType = "SECURITY_ARM_STATE_EVENT" ->
            Call(i, Lookup(subscribedEventHandlers, SecurityArmStateHandlerName),
                 TRUE, <<ctx, event.securityArmStateEvent>>)
      [] OTHER -> Nothing

\* for (const event of eventData.events): the indices in the order visited.
IterationReversed(events) == [k \in 1..Len(events) |-> Len(events) + 1 - k]
Iteration(events) == [k \in 1..Len(events) |-> k]

\* The loop from its step n on; a throw ends it.
RECURSIVE RunFrom(_, _, _, _)
RunFrom(events, n, ctx, acc) ==
    IF n > Len(events) THEN [invocations |-> acc, threw |-> FALSE]
    ELSE LET i == Iteration(events)[n]
             r == DispatchEvent(i, events[i], ctx)
         IN IF r.threw THEN [invocations |-> acc \o r.invocations, threw |-> TRUE]
            ELSE RunFrom(events, n + 1, ctx, acc \o r.invocations)

RunEvents(events, ctx) == RunFrom(events, 1, ctx, <<>>)

\* The results array: the invocations whose return value was pushed.
Collected == {n \in 1..Len(invoked) : invoked[n].collected}

\* {statusCode: 200, eventData: {}}
ResponseWithoutEventData == [statusCode |-> 200]
Response == [statusCode |-> 200, eventData |-> <<>>]

\* responder.respond(payload): the HTTP responder sends the payload with
\* status 200, the mock responder keeps it in its response field.
Respond(responder, payload) ==
    [responder |-> responder, status |-> 200, payload |-> payload]

\* response.status(401).send('Forbidden')
Forbidden == [responder |-> "http", status |-> 401, text |-> "Forbidden"]

Responder(entryPoint) == IF entryPoint = "handleMockCallback" THEN "mock" ELSE "http"

\* _handleCallback(body, responder) to its first await or its end; for an
\* EVENT this is withContext(installedAppId) to its await of the store.
HandleCallbackAnswering(b) ==
    /\ body' = b
    /\ IF b.messageType = "EVENT"
       THEN /\ IF contextStore = "undefined"
               THEN pc' = "rejected" /\ UNCHANGED storeGets
               ELSE pc' = "awaitContext" /\ storeGets' = storeGets + 1
            /\ UNCHANGED emitted
       ELSE /\ pc' = "resolved"
            /\ emitted' = Append(emitted, Respond(Responder(entry'), Response))
            /\ UNCHANGED storeGets
    /\ UNCHANGED <<context, invoked, mutexes>>

HandleCallbackAssumingStore(b) ==
    /\ body' = b
    /\ IF b.messageType = "EVENT"
       THEN pc' = "awaitContext" /\ storeGets' = storeGets + 1
       ELSE pc' = "resolved" /\ UNCHANGED storeGets
    /\ UNCHANGED <<context, invoked, emitted, mutexes>>

HandleCallback(b) ==
    /\ body' = b
    /\ IF b.messageType = "EVENT"
       THEN IF contextStore = "undefined"
            THEN pc' = "rejected" /\ UNCHANGED storeGets
            ELSE pc' = "awaitContext" /\ storeGets' = storeGets + 1
       ELSE pc' = "resolved" /\ UNCHANGED storeGets
    /\ UNCHANGED <<context, invoked, emitted, mutexes>>

\* handleHttpCallbackUnverified(request, response)
HandleHttpCallbackUnverified(b) ==
    /\ pc = "idle"
    /\ entry' = "handleHttpCallbackUnverified"
    /\ HandleCallback(b)
    /\ UNCHANGED <<clientVars, authVars, registryVars>>

\* handleMockCallback(body), to its await of _handleCallback.
HandleMockCallback(b) ==
    /\ pc = "idle"
    /\ entry' = "handleMockCallback"
    /\ HandleCallback(b)
    /\ UNCHANGED <<clientVars, authVars, registryVars>>

\* handleEventCallback(request, response): the condition of the if is what
\* the call of the async function _isAuthorized returned.
HandleEventCallback(req, b) ==
    /\ pc = "idle"
    /\ entry' = "handleEventCallback"
    /\ SmartAppIsAuthorized(1, req)
    /\ IF Truthy(JsPromise)
       THEN HandleCallback(b)
       ELSE /\ emitted' = Append(emitted, Forbidden)
            /\ pc' = "unauthorized"
            /\ UNCHANGED <<body, context, invoked, storeGets, mutexes>>
    /\ UNCHANGED <<registryVars, clientVars>>

\* The await of contextStore.get ends; withContext builds the context; the
\* loop over the events runs to the await of Promise.all(results).
StoreOutcomes == {"ok", "missing", "error"}

ContextStoreGetReturn(outcome) ==
    /\ pc = "awaitContext"
    /\ IF outcome = "error"
       THEN /\ pc' = "rejected"
            /\ UNCHANGED <<context, invoked, mutexes>>
       ELSE IF outcome = "missing"
       THEN /\ pc' = "rejected"
            /\ mutexes' = mutexes + 1
            /\ UNCHANGED <<context, invoked>>
       ELSE LET ctx == ApiContext(StoreData(body.eventData.installedApp.installedAppId),
                                  mutexes + 1)
                run == RunEvents(body.eventData.events, ctx)
            IN /\ mutexes' = mutexes + 1
               /\ context' = ctx
               /\ invoked' = run.invocations
               /\ pc' = IF run.threw THEN "rejected" ELSE "aggregating"
    /\ UNCHANGED <<entry, body, emitted, storeGets>>
    /\ UNCHANGED <<clientVars, authVars, registryVars>>

\* The promise a handler returned settles.
Settle(n, outcome) ==
    /\ n \in 1..Len(invoked)
    /\ invoked[n].status = "pending"
    /\ invoked' = [invoked EXCEPT ![n].status = outcome]
    /\ UNCHANGED <<entry, body, pc, context, emitted, storeGets, mutexes>>
    /\ UNCHANGED <<clientVars, authVars, registryVars>>

\* await Promise.all(results) ends with every result fulfilled:
\* responder.respond({statusCode: 200, eventData: {}}).
PromiseAllFulfilled ==
    /\ pc = "aggregating"
    /\ \A n \in Collected : invoked[n].status \in {"fulfilled", "value"}
    /\ emitted' = Append(emitted, Respond(Responder(entry), Response))
    /\ pc' = "resolved"
    /\ UNCHANGED <<entry, body, context, invoked, storeGets, mutexes>>
    /\ UNCHANGED <<clientVars, authVars, registryVars>>

\* await Promise.all(results) throws: one of the results has rejected.
PromiseAllRejected ==
    /\ pc = "aggregating"
    /\ \E n \in Collected : invoked[n].status = "rejected"
    /\ pc' = "rejected"
    /\ UNCHANGED <<entry, body, context, invoked, emitted, storeGets, mutexes>>
    /\ UNCHANGED <<clientVars, authVars, registryVars>>

----------------------------------------------------------------------------
\* Specifications

AuthInit ==
    /\ certKeyId = NoKeyId
    /\ certKey = JsUndefined
    /\ padlockSignature = TRUE
    /\ publicKeyId = NoKeyId
    /\ publicKey = JsUndefined
    /\ calls = [c \in CallIds |-> IdleCall]
    /\ fetchCount = [k \in KeyIds |-> 0]
    /\ keyInjections = 0

RegistryInit ==
    /\ subscribedEventHandlers = EmptyTable
    /\ scheduledEventHandlers = EmptyTable
    /\ deviceCommandHandler = NoCallback
    /\ defaultDeviceCommandHandler = "warnNoCommandHandler"
    /\ deviceCommands = EmptyTable
    /\ uninstalledHandler = "noop"
    /\ contextStore = "undefined"

DispatchInit ==
    /\ entry = "none"
    /\ body = NoBody
    /\ pc = "idle"
    /\ context = NoContext
    /\ invoked = <<>>
    /\ emitted = <<>>
    /\ storeGets = 0
    /\ mutexes = 0

ContextInit ==
    /\ contexts = [c \in ContextIds |-> NoContextCall]
    /\ apiCalls = [k \in ApiCallIds |-> NoApiCall]

StateInit ==
    /\ map = [i \in StateIds |-> NullTree]
    /\ stateCalls = [k \in StateCallIds |-> NoStateCall]

ClientInit == ContextInit /\ StateInit /\ stored = EmptyTree

\* The verifiers on their own: calls of isAuthorized on a SmartApp or on a
\* Signature, and of setPublicKey.
InitAuth ==
    /\ object \in {"SmartApp", "Signature"}
    /\ AuthInit /\ RegistryInit /\ DispatchInit /\ ClientInit

AuthNext ==
    \/ /\ \E c \in CallIds, req \in Requests : SmartAppIsAuthorized(c, req)
       /\ UNCHANGED <<registryVars, dispatchVars, clientVars>>
    \/ /\ \E c \in CallIds, o \in FetchOutcomes : SmartAppCertReturn(c, o)
       /\ UNCHANGED <<registryVars, dispatchVars, clientVars>>
    \/ /\ \E c \in CallIds, req \in Requests : SignatureIsAuthorized(c, req)
       /\ UNCHANGED <<registryVars, dispatchVars, clientVars>>
    \/ /\ \E c \in CallIds, o \in FetchOutcomes : SignatureCertReturn(c, o)
       /\ UNCHANGED <<registryVars, dispatchVars, clientVars>>
    \/ /\ \E arg \in CertKeyArgs : SetPublicKey(arg)
       /\ UNCHANGED <<registryVars, dispatchVars, clientVars>>

SpecAuth == InitAuth /\ [][AuthNext]_vars

\* One request to a SmartApp, after the handlers were registered.
SubscriptionNames == {<<"a", "_", "b">>, <<"b">>}
SubscribedNames == {<<"a">>, <<"b">>}
ScheduleNames == {<<"t">>}

\* The developer's function registered under a name.
CallbackFor(name) ==
    CASE name = <<"a">> -> "onA"
      [] name = <<"b">> -> "onB"
      [] name = <<"t">> -> "onT"
      [] OTHER -> "onOther"

DispatchEvents ==
    {DeviceEvent(n) : n \in SubscriptionNames}
    \cup {TimerEvent(n) : n \in ScheduleNames}
    \cup {OtherEvent}

InitDispatch ==
    /\ object = "SmartApp"
    /\ AuthInit /\ RegistryInit /\ DispatchInit /\ ClientInit

Configure ==
    \/ \E n \in SubscribedNames : SubscribedEventHandler(n, CallbackFor(n))
    \/ \E n \in ScheduleNames : ScheduledEventHandler(n, CallbackFor(n))
    \/ ContextStore("store")

Arrive ==
    \/ \E b \in Envelopes(DispatchEvents) : HandleHttpCallbackUnverified(b)
    \/ \E b \in Envelopes(DispatchEvents) : HandleMockCallback(b)
    \/ \E req \in Requests, b \in Envelopes(DispatchEvents) : HandleEventCallback(req, b)

Progress ==
    \/ \E o \in StoreOutcomes : ContextStoreGetReturn(o)
    \/ \E n \in 1..Len(invoked), o \in {"fulfilled", "rejected"} : Settle(n, o)
    \/ PromiseAllFulfilled
    \/ PromiseAllRejected
    \/ /\ \E o \in FetchOutcomes : SmartAppCertReturn(1, o)
       /\ UNCHANGED <<registryVars, dispatchVars, clientVars>>

DispatchNext == Configure \/ Arrive \/ Progress

SpecDispatch == InitDispatch /\ [][DispatchNext]_vars

\* The same request under fair scheduling: every await that can end does end,
\* and every promise a handler returned settles.
LiveDispatch ==
    /\ SpecDispatch
    /\ WF_vars(\E o \in StoreOutcomes : ContextStoreGetReturn(o))
    /\ WF_vars(\E n \in 1..Len(invoked), o \in {"fulfilled", "rejected"} : Settle(n, o))
    /\ WF_vars(PromiseAllFulfilled)
    /\ WF_vars(PromiseAllRejected)

\* One envelope with one DEVICE_COMMANDS_EVENT to a SmartApp, after the
\* device command handlers were registered.
MaxCommands == 2

Commands == {Command("main", "switch", "on"), Command("aux", "switch", "on"),
             Command("main", "switch", "off")}

CommandKeys == {<<"main", "/", "switch", "/", "on">>, <<"switch", "/", "on">>}

\* The developer's function registered under a command key.
CommandCallbackFor(key) ==
    IF key = <<"switch", "/", "on">> THEN "onSwitchOn" ELSE "onMainSwitchOn"

CommandsEnvelopes ==
    {EventEnvelope(<<DeviceCommandsEvent(cs)>>) : cs \in SeqsUpTo(Commands, MaxCommands)}

ConfigureCommands ==
    \/ DeviceCommandHandler("onCommands")
    \/ DefaultDeviceCommandHandler("onDefault")
    \/ \E k \in CommandKeys : DeviceCommand(k, CommandCallbackFor(k))
    \/ ContextStore("store")

ArriveCommands ==
    \/ \E b \in CommandsEnvelopes : HandleHttpCallbackUnverified(b)
    \/ \E b \in CommandsEnvelopes : HandleMockCallback(b)

ProgressCommands ==
    \/ \E o \in StoreOutcomes : ContextStoreGetReturn(o)
    \/ \E n \in 1..Len(invoked), o \in {"fulfilled", "rejected"} : Settle(n, o)
    \/ PromiseAllFulfilled
    \/ PromiseAllRejected

CommandsNext == ConfigureCommands \/ ArriveCommands \/ ProgressCommands

SpecCommands == InitDispatch /\ [][CommandsNext]_vars

LiveCommands ==
    /\ SpecCommands
    /\ WF_vars(\E o \in StoreOutcomes : ContextStoreGetReturn(o))
    /\ WF_vars(\E n \in 1..Len(invoked), o \in {"fulfilled", "rejected"} : Settle(n, o))
    /\ WF_vars(PromiseAllFulfilled)
    /\ WF_vars(PromiseAllRejected)

\* withContext, setLocationId and getApi calls on a SmartApp.
ContextNext ==
    \/ ContextStore("store")
    \/ \E c \in ContextIds, obj \in ContextObjects : WithContextObject(c, obj)
    \/ \E c \in ContextIds, ia \in InstalledAppIds : WithContext(c, ia)
    \/ \E c \in ContextIds, o \in StoreOutcomes : WithContextStoreReturn(c, o)
    \/ \E c \in ContextIds, id \in LocationIds : SetLocationId(c, id)
    \/ \E k \in ApiCallIds, c \in ContextIds : GetApi(k, c)
    \/ \E k \in ApiCallIds, o \in StoreOutcomes : GetApiStoreReturn(k, o)

SpecContext == InitDispatch /\ [][ContextNext]_vars

\* get, update and save calls on the IsaState of one installation, for which
\* the store holds {c: 2} at first.
StateNames == {<<"a", ".", "b">>, <<"c">>}
StateValues == {5}
StoredStates == {Tree(<<<<"c">>>> :> 2)}
WriteOutcomes == {"ok", "error"}

InitState ==
    /\ object = "SmartApp"
    /\ AuthInit /\ RegistryInit /\ DispatchInit /\ ContextInit /\ StateInit
    /\ stored \in StoredStates

StateNext ==
    \/ \E k \in StateCallIds, i \in StateIds, n \in StateNames : Get(k, i, n)
    \/ \E k \in StateCallIds, o \in WriteOutcomes : GetStoreReturn(k, o)
    \/ \E k \in StateCallIds, i \in StateIds, n \in StateNames, v \in StateValues :
          Update(k, i, n, v)
    \/ \E k \in StateCallIds, o \in WriteOutcomes : UpdateStoreReturn(k, o)
    \/ \E k \in StateCallIds, i \in StateIds : Save(k, i)
    \/ \E k \in StateCallIds, o \in WriteOutcomes : SaveStoreReturn(k, o)

SpecState == InitState /\ [][StateNext]_vars

\* One envelope of lifecycle, device, timer, mode and security events to a
\* SmartApp, after handlers were registered.
LifecycleEvents ==
    {LifecycleEvent("DELETE"), LifecycleEvent("UPDATE"), DeviceEvent(<<"a">>),
     TimerEvent(<<"t">>), ModeEvent, SecurityArmStateEvent}

LifecycleEnvelopes == {EventEnvelope(es) : es \in SeqsUpTo(LifecycleEvents, MaxEvents)}

ConfigureLifecycle ==
    \/ Uninstalled("onUninstalled")
    \/ \E n \in {<<"a">>, ModeChangeHandlerName, SecurityArmStateHandlerName} :
          SubscribedEventHandler(n, CallbackFor(n))
    \/ ScheduledEventHandler(<<"t">>, CallbackFor(<<"t">>))
    \/ ContextStore("store")

ArriveLifecycle == \E b \in LifecycleEnvelopes : HandleMockCallback(b)

ProgressLifecycle ==
    \/ \E o \in StoreOutcomes : ContextStoreGetReturn(o)
    \/ \E n \in 1..Len(invoked), o \in {"fulfilled", "rejected"} : Settle(n, o)
    \/ PromiseAllFulfilled
    \/ PromiseAllRejected

LifecycleNext == ConfigureLifecycle \/ ArriveLifecycle \/ ProgressLifecycle

SpecLifecycle == InitDispatch /\ [][LifecycleNext]_vars

LiveLifecycle ==
    /\ SpecLifecycle
    /\ WF_vars(\E o \in StoreOutcomes : ContextStoreGetReturn(o))
    /\ WF_vars(\E n \in 1..Len(invoked), o \in {"fulfilled", "rejected"} : Settle(n, o))
    /\ WF_vars(PromiseAllFulfilled)
    /\ WF_vars(PromiseAllRejected)

----------------------------------------------------------------------------
\* Properties

Events == body.eventData.events

\* The context was resolved: the store answered and the loop over the events ran.
ContextResolved == body.messageType = "EVENT" /\ context # NoContext

\* p is the part of s before its first '_' (all of s when it has none).
IsPrefixBeforeUnderscore(p, s) ==
    /\ \A k \in 1..Len(p) : p[k] # "_"
    /\ \/ s = p
       \/ /\ Len(s) > Len(p)
          /\ SubSeq(s, 1, Len(p)) = p
          /\ s[Len(p) + 1] = "_"

\* The event has a handler registered under the key the dispatcher derives
\* for it (events of other types need none here).
HasRegisteredHandler(event) ==
    CASE event.eventType = "DEVICE_EVENT" ->
            \E p \in DOMAIN subscribedEventHandlers :
                IsPrefixBeforeUnderscore(p, event.deviceEvent.subscriptionName)
      [] event.eventType = "TIMER_EVENT" ->
            event.timerEvent.name \in DOMAIN scheduledEventHandlers
      [] event.eventType = "MODE_EVENT" ->
            ModeChangeHandlerName \in DOMAIN subscribedEventHandlers
      [] event.eventType = "SECURITY_ARM_STATE_EVENT" ->
            SecurityArmStateHandlerName \in DOMAIN subscribedEventHandlers
      [] OTHER -> TRUE

\* The event is of a type the dispatcher looks a handler up for by name.
RoutedByName(event) ==
    event.eventType \in {"DEVICE_EVENT", "TIMER_EVENT", "MODE_EVENT",
                         "SECURITY_ARM_STATE_EVENT"}

AllRegistered == \A i \in 1..Len(Events) : HasRegisteredHandler(Events[i])

Terminal == pc \in {"resolved", "rejected", "unauthorized"}

SomeResultRejected == \E n \in Collected : invoked[n].status = "rejected"

\* C1: on handleEventCallback, a request whose signature verification yielded
\* false is answered 401 'Forbidden' and _handleCallback is never started for
\* it: no context store access, no handler invocation, no 200 response.
C1_UnauthorizedIsRejected ==
    (entry = "handleEventCallback" /\ calls[1].pc = "returned" /\ ~calls[1].result)
        => /\ emitted = <<Forbidden>>
           /\ pc = "unauthorized"
           /\ storeGets = 0
           /\ invoked = <<>>

\* C2: isAuthorized never throws: every call that ends returns a boolean; it
\* returns false when the signature envelope cannot be parsed, when the key
\* fetch fails, when the certificate cannot be parsed and when the signature
\* does not verify, and true only when verifySignature returned true.
C2_IsAuthorizedNeverThrows ==
    \A c \in CallIds :
        /\ calls[c].pc # "threw"
        /\ calls[c].pc = "returned" =>
              /\ calls[c].result <=> calls[c].verified = "true"
              /\ calls[c].req.malformed => ~calls[c].result
              /\ calls[c].fetch \in {"error", "garbage"} => ~calls[c].result
              /\ calls[c].verified = "false" => ~calls[c].result

\* Calls of both kinds have ended: one false after a failed key fetch, one
\* false after a signature that did not verify, one true.
C2_Witness ==
    \E c, d, e \in CallIds :
        /\ calls[c].pc = "returned" /\ calls[c].fetch = "error" /\ ~calls[c].result
        /\ calls[d].pc = "returned" /\ calls[d].verified = "false" /\ ~calls[d].result
        /\ calls[e].pc = "returned" /\ calls[e].result

\* The request is signed with the key the key server publishes for its key id.
ValidlySigned(req) == ~req.malformed /\ req.signedBy = Published(req.keyId)

\* C3: with no static key, a validly signed request is authorized (unless the
\* key server failed the fetch made for this very call) and a request whose
\* signature does not verify against the published key is not, whatever calls
\* came before or overlap.
C3_AuthorizedIffValidlySigned ==
    keyInjections = 0 =>
        \A c \in CallIds :
            (calls[c].pc = "returned" /\ ~calls[c].req.malformed) =>
                /\ (ValidlySigned(calls[c].req) /\ calls[c].fetch \in {"none", "ok"})
                      => calls[c].result
                /\ ~ValidlySigned(calls[c].req) => ~calls[c].result

\* C4: with no static key, when a call has fetched the certificate of a key
\* id and ended, and every call so far carried that key id and has ended,
\* the next call with that key id makes no fetch: at most one fetch in total.
C4_SameKeyIdFetchedOnce ==
    [][\A c \in CallIds :
          ( /\ calls[c].pc = "idle" /\ calls'[c].pc # "idle"
            /\ keyInjections = 0
            /\ ~calls'[c].req.malformed
            /\ \E d \in CallIds : calls[d].pc = "returned" /\ calls[d].fetch = "ok"
            /\ \A d \in CallIds :
                  /\ calls[d].pc \in {"idle", "returned"}
                  /\ calls[d].pc = "returned" =>
                        /\ ~calls[d].req.malformed
                        /\ calls[d].req.keyId = calls'[c].req.keyId )
          => fetchCount' = fetchCount]_vars

\* C5: once setPublicKey has been called, no step of isAuthorized fetches from
\* the key server or changes the stored public key or the cached key id, and a
\* call made from then on ends at once, authorized exactly when its signature
\* verifies against the stored (injected) key.
C5_StaticKeyIsKept ==
    [][(~padlockSignature /\ keyInjections' = keyInjections) =>
          /\ publicKey' = publicKey
          /\ publicKeyId' = publicKeyId
          /\ fetchCount' = fetchCount
          /\ \A c \in CallIds :
                (calls[c].pc = "idle" /\ calls'[c].pc # "idle") =>
                    /\ calls'[c].pc = "returned"
                    /\ calls'[c].result <=>
                          /\ ~calls'[c].req.malformed
                          /\ KeyMaterial(publicKey) = calls'[c].req.signedBy]_vars

\* In static mode two calls naming different key ids have ended without a
\* fetch, one of them authorized against the injected key.
C5_Witness ==
    /\ ~padlockSignature
    /\ \E c, d \in CallIds :
          /\ calls[c].pc = "returned" /\ calls[d].pc = "returned"
          /\ calls[c].fetch = "none" /\ calls[d].fetch = "none"
          /\ ~calls[c].req.malformed /\ ~calls[d].req.malformed
          /\ calls[c].req.keyId # calls[d].req.keyId
          /\ calls[c].result
    /\ \A k \in KeyIds : fetchCount[k] = 0

\* The envelope holds DEVICE_EVENTs only, each with a registered prefix, no
\* two with the same prefix.
DistinctRegisteredDeviceEvents ==
    /\ \A i \in 1..Len(Events) :
          /\ Events[i].eventType = "DEVICE_EVENT"
          /\ HasRegisteredHandler(Events[i])
    /\ \A i, j \in 1..Len(Events) :
          i # j => ~\E p \in DOMAIN subscribedEventHandlers :
                      /\ IsPrefixBeforeUnderscore(p, Events[i].deviceEvent.subscriptionName)
                      /\ IsPrefixBeforeUnderscore(p, Events[j].deviceEvent.subscriptionName)

\* C6: for an envelope of N DEVICE_EVENTs with distinct registered prefixes
\* the dispatcher makes exactly N invocations, the i-th of the handler
\* registered under the prefix of event i with (context, that deviceEvent),
\* collects each result, and responds only when all N results have completed.
C6_DeviceEventsDispatched ==
    (ContextResolved /\ DistinctRegisteredDeviceEvents) =>
        /\ Len(invoked) = Len(Events)
        /\ \A i \in 1..Len(invoked) :
              /\ invoked[i].event = i
              /\ invoked[i].collected
              /\ invoked[i].args = <<context, Events[i].deviceEvent>>
              /\ \A p \in DOMAIN subscribedEventHandlers :
                    IsPrefixBeforeUnderscore(p, Events[i].deviceEvent.subscriptionName)
                        => invoked[i].callback = subscribedEventHandlers[p]
        /\ emitted # <<>> => \A i \in 1..Len(invoked) : invoked[i].status = "fulfilled"

\* Two device events with different prefixes were dispatched, their results
\* fulfilled and the response sent.
C6_Witness ==
    /\ ContextResolved /\ DistinctRegisteredDeviceEvents
    /\ Len(Events) = 2
    /\ Events[1].deviceEvent.subscriptionName = <<"a", "_", "b">>
    /\ Len(invoked) = 2
    /\ emitted # <<>>

\* C7: an EVENT envelope whose context was resolved, whose events all have
\* registered handlers and whose results all fulfil is answered by exactly
\* one respond({statusCode: 200, eventData: {}}); no envelope is answered twice.
C7_RespondedExactlyOnce ==
    /\ [](Len(emitted) <= 1)
    /\ [](pc = "resolved" /\ ContextResolved =>
             emitted = <<[responder |-> Responder(entry), status |-> 200,
                          payload |-> [statusCode |-> 200, eventData |-> <<>>]]>>)
    /\ (ContextResolved /\ AllRegistered) ~>
          \/ SomeResultRejected
          \/ /\ pc = "resolved"
             /\ emitted = <<[responder |-> Responder(entry), status |-> 200,
                             payload |-> [statusCode |-> 200, eventData |-> <<>>]]>>

\* An envelope of two events was answered after both results fulfilled.
C7_Witness ==
    /\ ContextResolved /\ AllRegistered
    /\ Len(Events) = 2 /\ Len(invoked) = 2
    /\ \A n \in 1..Len(invoked) : invoked[n].status = "fulfilled"
    /\ pc = "resolved"
    /\ Len(emitted) = 1

\* C8: the dispatch leaves the await of the collected results only when every
\* collected result has settled, fulfilled or rejected.
C8_WaitsForAllResults ==
    [][(pc = "aggregating" /\ pc' # "aggregating") =>
          \A n \in Collected : invoked[n].status # "pending"]_vars

\* C9: a dispatch that has ended with a collected result rejected (every
\* event having had its handler) has answered {statusCode: 200, eventData: {}}.
C9_PartialFailureAcknowledged ==
    (ContextResolved /\ AllRegistered /\ Terminal /\ SomeResultRejected) =>
        emitted = <<[responder |-> Responder(entry), status |-> 200,
                     payload |-> [statusCode |-> 200, eventData |-> <<>>]]>>

\* C10: handlers are started in event-array order, and the start of a later
\* one does not wait for an earlier result: there is no state in which an
\* event's handler has been invoked and that of a later event, which has a
\* registered handler like all events up to it, has not.
C10_InvokedInArrayOrder ==
    /\ \A m, n \in 1..Len(invoked) : invoked[m].event < invoked[n].event => m < n
    /\ ContextResolved =>
          \A i, j \in 1..Len(Events) :
              ( /\ i < j
                /\ RoutedByName(Events[j])
                /\ \A k \in 1..j : HasRegisteredHandler(Events[k])
                /\ \E m \in 1..Len(invoked) : invoked[m].event = i )
              => \E n \in 1..Len(invoked) : invoked[n].event = j

\* The second handler's result has fulfilled while the first one's is pending.
C10_Witness ==
    /\ Len(invoked) = 2
    /\ invoked[1].event = 1 /\ invoked[2].event = 2
    /\ invoked[1].status = "pending"
    /\ invoked[2].status = "fulfilled"

\* The envelope's one event is a DEVICE_COMMANDS_EVENT and was dispatched.
CommandsDispatched ==
    /\ ContextResolved
    /\ Len(Events) = 1
    /\ Events[1].eventType = "DEVICE_COMMANDS_EVENT"

CommandsEvent == Events[1].deviceCommandsEvent

\* The command has a handler registered under 'componentId/capability/command'
\* or under 'capability/command'.
Matched(cmd) ==
    \/ <<cmd.componentId, "/", cmd.capability, "/", cmd.command>> \in DOMAIN deviceCommands
    \/ <<cmd.capability, "/", cmd.command>> \in DOMAIN deviceCommands

\* C11: a DEVICE_COMMANDS_EVENT goes to the catch-all handler when one is
\* registered, in one collected invocation with the whole commands-event and
\* nothing else; otherwise command k goes to the handler registered under
\* 'componentId/capability/command' if there is one, else to the one under
\* 'capability/command' if there is one, with (context, deviceId, cmd, event),
\* and the result of every such invocation is collected.
C11_DeviceCommandsRouted ==
    CommandsDispatched =>
        IF deviceCommandHandler # NoCallback
        THEN invoked = <<[event |-> 1, callback |-> deviceCommandHandler,
                          collected |-> TRUE, args |-> <<context, CommandsEvent>>,
                          status |-> invoked[1].status]>>
        ELSE /\ Len(invoked) = Len(CommandsEvent.commands)
             /\ \A k \in 1..Len(invoked) :
                   LET cmd == CommandsEvent.commands[k]
                       compKey == <<cmd.componentId, "/", cmd.capability, "/", cmd.command>>
                       capKey == <<cmd.capability, "/", cmd.command>>
                   IN Matched(cmd) =>
                         /\ invoked[k].callback =
                               IF compKey \in DOMAIN deviceCommands
                               THEN deviceCommands[compKey]
                               ELSE deviceCommands[capKey]
                         /\ invoked[k].collected
                         /\ invoked[k].args =
                               <<context, [deviceId |-> CommandsEvent.deviceId],
                                 cmd, CommandsEvent>>

\* With only 'switch/on' registered, {main, switch, on} went to its handler.
C11_Witness ==
    /\ CommandsDispatched
    /\ deviceCommandHandler = NoCallback
    /\ DOMAIN deviceCommands = {<<"switch", "/", "on">>}
    /\ CommandsEvent.commands = <<Command("main", "switch", "on"),
                                  Command("main", "switch", "off")>>
    /\ invoked[1].callback = "onSwitchOn"
    /\ invoked[1].status = "fulfilled"
    /\ pc = "resolved"

\* The dispatched commands event has no catch-all handler and no command of
\* it has a handler of its own.
AllUnmatched ==
    /\ CommandsDispatched
    /\ deviceCommandHandler = NoCallback
    /\ \A k \in 1..Len(CommandsEvent.commands) : ~Matched(CommandsEvent.commands[k])

\* C12: with no catch-all handler, every command without a handler of its own
\* gets one invocation of the default device command handler with (context,
\* deviceId, cmd), whose result is not collected; when no command has a
\* handler, the dispatch does not throw, awaits nothing and answers
\* {statusCode: 200, eventData: {}}.
C12_DefaultHandlerPerUnmatchedCommand ==
    /\ []((CommandsDispatched /\ deviceCommandHandler = NoCallback) =>
             /\ Len(invoked) = Len(CommandsEvent.commands)
             /\ \A k \in 1..Len(invoked) :
                   ~Matched(CommandsEvent.commands[k]) =>
                       /\ invoked[k].event = 1
                       /\ invoked[k].callback = defaultDeviceCommandHandler
                       /\ ~invoked[k].collected
                       /\ invoked[k].args = <<context, [deviceId |-> CommandsEvent.deviceId],
                                              CommandsEvent.commands[k]>>)
    /\ [](AllUnmatched =>
             /\ pc \in {"aggregating", "resolved"}
             /\ \A n \in 1..Len(invoked) : ~invoked[n].collected
             /\ Len(emitted) <= 1)
    /\ AllUnmatched ~>
          /\ pc = "resolved"
          /\ emitted = <<[responder |-> Responder(entry), status |-> 200,
                          payload |-> [statusCode |-> 200, eventData |-> <<>>]]>>

\* Two unmatched commands went to a registered default handler; the envelope
\* was answered although one of its promises rejected and the other is pending.
C12_Witness ==
    /\ AllUnmatched
    /\ Len(CommandsEvent.commands) = 2
    /\ defaultDeviceCommandHandler = "onDefault"
    /\ invoked[1].status = "rejected"
    /\ invoked[2].status = "pending"
    /\ pc = "resolved"
    /\ Len(emitted) = 1

\* C13: once setLocationId(id) was called on a context, the context's
\* locationId is id, and an API client the context holds has locationId id,
\* whatever getApi calls follow or were suspended meanwhile.
C13_LocationIdNeverStale ==
    \A c \in ContextIds :
        (contexts[c].pc = "alive" /\ contexts[c].located # "undefined") =>
            /\ contexts[c].ctx.locationId = contexts[c].located
            /\ contexts[c].ctx.api.made =>
                  contexts[c].ctx.api.locationId = contexts[c].located

\* C14: on one context the store is fetched at most once by getApi, at most
\* one API client is ever made, and every getApi call returns the same one.
C14_GetApiMemoizedOnce ==
    \A c \in ContextIds :
        /\ contexts[c].fetches <= 1
        /\ contexts[c].clients <= 1
        /\ \A j, k \in ApiCallIds :
              ( /\ apiCalls[j].pc = "returned" /\ apiCalls[j].ctx = c
                /\ apiCalls[k].pc = "returned" /\ apiCalls[k].ctx = c )
              => apiCalls[j].got = apiCalls[k].got

\* The tree maps the dot-path name to the value.
Holds(tree, name, value) ==
    /\ tree.kind = "object"
    /\ Split(name, <<".">>[1]) \in DOMAIN tree.leaves
    /\ tree.leaves[Split(name, <<".">>[1])] = value

\* Call g is a get that began after the update call u had ended with its
\* store write confirmed, on the same instance and for the same name, with no
\* call in between and none suspended.
GetFollowsUpdate(u, g) ==
    /\ g = u + 1
    /\ stateCalls[u].op = "update" /\ stateCalls[u].acked
    /\ stateCalls[g].op = "get"
    /\ stateCalls[g].inst = stateCalls[u].inst
    /\ stateCalls[g].name = stateCalls[u].name
    /\ stateCalls[g].during = {}
    /\ stateCalls[g].pc \in {"returned", "threw"}

\* C15: update(p, v) followed by get(p) on the same instance returns v, and
\* that get does not call contextStore.get.
C15_ReadAfterWrite ==
    \A u, g \in StateCallIds :
        GetFollowsUpdate(u, g) =>
            /\ stateCalls[g].pc = "returned"
            /\ stateCalls[g].result = [t |-> "number", n |-> stateCalls[u].value]
            /\ ~stateCalls[g].fetched

\* C16: update(name, value) calls contextStore.update once, with a state in
\* which the dot-path name maps to value; a get(name) that loads the state
\* from the store afterwards returns value.
C16_UpdatePersistsNestedState ==
    /\ \A u \in StateCallIds :
          (stateCalls[u].op = "update" /\ stateCalls[u].pc # "idle") =>
              /\ stateCalls[u].writes = 1
              /\ Holds(stateCalls[u].payload, stateCalls[u].name, stateCalls[u].value)
    /\ \A u, g \in StateCallIds :
          (GetFollowsUpdate(u, g) /\ stateCalls[g].fetched) =>
              /\ stateCalls[g].pc = "returned"
              /\ stateCalls[g].result = [t |-> "number", n |-> stateCalls[u].value]

\* C17: when two update calls for different dot-paths overlapped and both
\* store writes were confirmed, the state a later save() passes to the store
\* (the in-memory state) holds both values.
C17_NoLostUpdate ==
    \A i, j, s \in StateCallIds :
        ( /\ i < j /\ j < s
          /\ stateCalls[i].op = "update" /\ stateCalls[j].op = "update"
          /\ stateCalls[i].acked /\ stateCalls[j].acked
          /\ stateCalls[i].name # stateCalls[j].name
          /\ i \in stateCalls[j].during
          /\ stateCalls[s].op = "save"
          /\ stateCalls[s].during = {} )
        => /\ Holds(stateCalls[s].payload, stateCalls[i].name, stateCalls[i].value)
           /\ Holds(stateCalls[s].payload, stateCalls[j].name, stateCalls[j].value)

\* C18: two contexts alive at the same time are guarded by the same mutex
\* when they are for the same installedAppId, and by different mutexes when
\* they are for different installations.
C18_OneMutexPerInstallation ==
    \A c, d \in ContextIds :
        (c # d /\ contexts[c].pc = "alive" /\ contexts[d].pc = "alive") =>
            (contexts[c].ctx.installedAppId = contexts[d].ctx.installedAppId
                <=> contexts[c].mutex = contexts[d].mutex)

\* The loop over the events got to event i: the context was resolved and
\* every event before i had its handler.
Reached(i) ==
    /\ ContextResolved
    /\ i \in 1..Len(Events)
    /\ \A k \in 1..(i - 1) : HasRegisteredHandler(Events[k])

InvocationsOf(i) == {n \in 1..Len(invoked) : invoked[n].event = i}

IsLifecycle(event) == event.eventType = "INSTALLED_APP_LIFECYCLE_EVENT"

\* C19: a lifecycle event with lifecycle DELETE gives exactly one invocation
\* of the uninstalled handler with (context, event), whose result is not
\* collected; any other lifecycle value gives no invocation; the events after
\* a lifecycle event are still dispatched, and the envelope is answered with
\* {statusCode: 200, eventData: {}} without waiting for the uninstalled handler.
C19_LifecycleDeleteFireAndForget ==
    /\ [](\A i \in 1..MaxEvents :
            (Reached(i) /\ IsLifecycle(Events[i])) =>
                IF Events[i].installedAppLifecycleEvent.lifecycle = "DELETE"
                THEN \E n \in 1..Len(invoked) :
                        /\ InvocationsOf(i) = {n}
                        /\ invoked[n].callback = uninstalledHandler
                        /\ invoked[n].args = <<context, Events[i]>>
                        /\ ~invoked[n].collected
                ELSE InvocationsOf(i) = {})
    /\ [](\A i, j \in 1..MaxEvents :
            ( /\ i < j /\ Reached(j) /\ IsLifecycle(Events[i])
              /\ RoutedByName(Events[j]) /\ HasRegisteredHandler(Events[j]) )
            => InvocationsOf(j) # {})
    /\ (ContextResolved /\ AllRegistered /\ \E i \in 1..Len(Events) : IsLifecycle(Events[i]))
          ~> \/ SomeResultRejected
             \/ /\ pc = "resolved"
                /\ emitted = <<[responder |-> Responder(entry), status |-> 200,
                                payload |-> [statusCode |-> 200, eventData |-> <<>>]]>>

\* After a DELETE and a device event the envelope was answered while the
\* promise of the registered uninstalled handler is still pending.
C19_Witness ==
    /\ ContextResolved
    /\ Events = <<LifecycleEvent("DELETE"), DeviceEvent(<<"a">>)>>
    /\ uninstalledHandler = "onUninstalled"
    /\ Len(invoked) = 2
    /\ invoked[1].callback = "onUninstalled" /\ invoked[1].status = "pending"
    /\ invoked[2].status = "fulfilled"
    /\ pc = "resolved"
    /\ Len(emitted) = 1

\* C20: when the loop gets to a DEVICE_EVENT, TIMER_EVENT, MODE_EVENT or
\* SECURITY_ARM_STATE_EVENT whose key has no registered handler, the dispatch
\* ends with an error there: no invocation is made for that event or a later
\* one, nothing is emitted, and the invocations made for earlier events are
\* left as they are, never awaited.
C20_MissingHandlerAborts ==
    \A i \in 1..MaxEvents :
        (Reached(i) /\ RoutedByName(Events[i]) /\ ~HasRegisteredHandler(Events[i])) =>
            /\ pc = "rejected"
            /\ emitted = <<>>
            /\ \A n \in 1..Len(invoked) : invoked[n].event < i
            /\ \A k \in 1..(i - 1) :
                  (RoutedByName(Events[k]) \/
                   (IsLifecycle(Events[k]) /\
                    Events[k].installedAppLifecycleEvent.lifecycle = "DELETE"))
                      => InvocationsOf(k) # {}

\* A mode event had no handler after a device event had been dispatched; the
\* device event's handler is still pending.
C20_Witness ==
    /\ ContextResolved
    /\ Events = <<DeviceEvent(<<"a">>), ModeEvent>>
    /\ ModeChangeHandlerName \notin DOMAIN subscribedEventHandlers
    /\ Len(invoked) = 1
    /\ invoked[1].callback = "onA" /\ invoked[1].status = "pending"
    /\ pc = "rejected"
    /\ emitted = <<>>

\* The dispatch of an EVENT envelope ended without a context: the store get
\* failed, or there was no store to ask.
ContextFailed ==
    /\ body.messageType = "EVENT"
    /\ pc = "rejected"
    /\ context = NoContext

\* C21: when an EVENT envelope arrives with no store configured, or the await
\* of the store get ends without a context, the dispatch is rejected at that
\* step; in that state no handler was invoked, nothing was emitted and the
\* store was asked at most once, and nothing of this changes afterwards.
C21_StoreFailurePropagates ==
    /\ [][(pc = "idle" /\ pc' # "idle" /\ body'.messageType = "EVENT"
           /\ contextStore = "undefined")
          => (pc' = "rejected" /\ storeGets' = 0)]_vars
    /\ [][(pc = "awaitContext" /\ pc' # "awaitContext" /\ context' = NoContext)
          => (pc' = "rejected" /\ storeGets' = storeGets)]_vars
    /\ [](ContextFailed =>
             /\ invoked = <<>>
             /\ emitted = <<>>
             /\ storeGets <= 1)
    /\ [][ContextFailed => UNCHANGED <<pc, context, invoked, emitted, storeGets>>]_vars

\* The store get failed for an envelope of two events with registered handlers.
C21_Witness ==
    /\ ContextFailed
    /\ storeGets = 1
    /\ Len(Events) = 2
    /\ AllRegistered
    /\ \A i \in 1..Len(Events) : RoutedByName(Events[i])
    /\ invoked = <<>>
    /\ emitted = <<>>

\* C22: for an envelope whose messageType is not EVENT the dispatch ends at
\* once: no handler is invoked, the store is not asked, no context is made
\* and the responder is never called, whatever the entry point.
C22_OnlyEventsDispatched ==
    (pc # "idle" /\ body.messageType # "EVENT") =>
        /\ pc = "resolved"
        /\ invoked = <<>>
        /\ storeGets = 0
        /\ context = NoContext
        /\ emitted = <<>>

\* handleMockCallback was given an EXECUTE envelope, with a store configured
\* and handlers registered, and ended with no response captured.
C22_Witness ==
    /\ entry = "handleMockCallback"
    /\ body = [messageType |-> "EXECUTE"]
    /\ contextStore # "undefined"
    /\ DOMAIN subscribedEventHandlers # {}
    /\ pc = "resolved"
    /\ emitted = <<>>

\* C23: with no static key, whenever the cached key id is k the cached key
\* material is what the key server publishes for k: the certificate text in
\* a SmartApp, its subject key in a Signature.
C23_KeyCacheConsistent ==
    keyInjections = 0 =>
        /\ certKeyId # NoKeyId =>
              certKey = [t |-> "string", s |-> <<"CERT", Published(certKeyId)>>]
        /\ publicKeyId # NoKeyId =>
              publicKey = [t |-> "key", s |-> <<Published(publicKeyId)>>]

\* C24: an API client a context holds was made with the mutex that was
\* passed to the context's constructor and carries the context's
\* installedAppId, which is the one the context was made for.
C24_ClientHoldsContextMutex ==
    \A c \in ContextIds :
        (contexts[c].pc = "alive" /\ contexts[c].ctx.api.made) =>
            /\ contexts[c].ctx.api.apiMutex = contexts[c].mutex
            /\ contexts[c].ctx.api.installedAppId = contexts[c].ctx.installedAppId
            /\ contexts[c].ctx.installedAppId \in InstalledAppIds

====
